---- MODULE Spec2Model ----
(***************************************************************************)
(* k-truss discovery (src/ktruss.cu): the countTriangles kernel, one       *)
(* thread per edge, followed by the host-side pruning loop and the report  *)
(* of the remaining edges, for one call kTruss(g, k).                      *)
(*                                                                         *)
(* C arrays are functions over 0..n-1; the explicit edge list g.edges is a *)
(* sequence of pairs <<first, second>>.                                    *)
(***************************************************************************)
EXTENDS Integers, Sequences, FiniteSets

VARIABLES
    g,          \* the Graph handed to kTruss: rowPtr, colIdx, numNodes, numEdges, edges
    k,          \* the k handed to kTruss
    pc,         \* position of the host code inside kTruss
    d_rowPtr,   \* device copy of g.rowPtr
    d_colIdx,   \* device copy of g.colIdx (its first rowPtr[numNodes] entries)
    d_edgeSrc,  \* device copy of edgeSrc
    d_edgeDst,  \* device copy of edgeDst
    d_support,  \* device support array: defined exactly on the slots written so far
    ran,        \* kernel threads that have finished
    support,    \* host vector support (line 86), <<>> before it exists
    iter,       \* outer loop counter of the pruning loop
    i,          \* inner loop counter of the pruning loop
    changed,    \* the flag of the pass in progress, or of the last pass run
    passes,     \* number of passes over the edges completed (history)
    printed     \* the lines printed by the final loop, in order

vars == <<g, k, pc, d_rowPtr, d_colIdx, d_edgeSrc, d_edgeDst, d_support, ran,
          support, iter, i, changed, passes, printed>>

----------------------------------------------------------------------------
(* Bounds of the model *)

\* generated inputs have this many nodes
MaxNodes == 4
\* generated inputs have at most this many edges
MaxEdges == 5
\* k ranges over 1..MaxK
MaxK == 4
\* launched threads with edgeIdx >= numEdges that are modelled individually
MaxIdle == 1

(* Program constants *)

\* int threads = 256;
threads == 256

\* values an unwritten slot of d_support may hold when it is copied back
GarbageVals == {-1, 0, 1}

----------------------------------------------------------------------------
(* Inputs *)

ZeroBased(s) == [p \in 0..(Len(s) - 1) |-> s[p + 1]]

RECURSIVE SortedInts(_)
SortedInts(S) ==
    IF S = {} THEN <<>>
    ELSE LET m == CHOOSE x \in S : \A y \in S : x <= y
         IN  <<m>> \o SortedInts(S \ {m})

PairLess(a, b) == a[1] < b[1] \/ (a[1] = b[1] /\ a[2] < b[2])

RECURSIVE SortedPairs(_)
SortedPairs(S) ==
    IF S = {} THEN <<>>
    ELSE LET m == CHOOSE x \in S : \A y \in S : x = y \/ PairLess(x, y)
         IN  <<m>> \o SortedPairs(S \ {m})

\* neighbours of node n in the set E of pairs
Neighbours(E, n) == {w \in 0..(MaxNodes - 1) : <<n, w>> \in E \/ <<w, n>> \in E}

RECURSIVE ConcatLists(_, _, _)
ConcatLists(E, n, numNodes) ==
    IF n >= numNodes THEN <<>>
    ELSE SortedInts(Neighbours(E, n)) \o ConcatLists(E, n + 1, numNodes)

RECURSIVE Offset(_, _)
Offset(E, n) == IF n = 0 THEN 0 ELSE Offset(E, n - 1) + Cardinality(Neighbours(E, n - 1))

\* A Graph whose CSR index is built from the pairs E: each node's list is its
\* ascending, duplicate-free neighbours.
BuildGraph(numNodes, E) ==
    [rowPtr   |-> [n \in 0..numNodes |-> Offset(E, n)],
     colIdx   |-> ZeroBased(ConcatLists(E, 0, numNodes)),
     numNodes |-> numNodes,
     numEdges |-> Cardinality(E),
     edges    |-> SortedPairs(E)]

\* The Graph main builds.
MainGraph ==
    [rowPtr   |-> ZeroBased(<<0, 2, 4, 6, 7>>),
     colIdx   |-> ZeroBased(<<1, 2, 0, 2, 0, 1, 3, 3>>),
     numNodes |-> 4,
     numEdges |-> 5,
     edges    |-> <<<<0, 1>>, <<0, 2>>, <<1, 2>>, <<1, 3>>, <<2, 3>>>>]

AllPairs == {p \in (0..(MaxNodes - 1)) \X (0..(MaxNodes - 1)) : p[1] < p[2]}

Inputs ==
    {BuildGraph(MaxNodes, E) : E \in {S \in SUBSET AllPairs : Cardinality(S) <= MaxEdges}}
        \cup {MainGraph}

----------------------------------------------------------------------------
(* countTriangles *)

\* TwoPointer advancing the wrong pointer when the two neighbours differ
RECURSIVE TwoPointerSwapped(_, _, _, _, _, _, _, _)
TwoPointerSwapped(colIdx, u, v, ii, uEnd, jj, vEnd, count) ==
    IF ~(ii < uEnd /\ jj < vEnd) THEN count
    ELSE LET uNeighbor == colIdx[ii]
             vNeighbor == colIdx[jj]
         IN  IF uNeighbor = v
                  THEN TwoPointerSwapped(colIdx, u, v, ii + 1, uEnd, jj, vEnd, count)
             ELSE IF vNeighbor = u
                  THEN TwoPointerSwapped(colIdx, u, v, ii, uEnd, jj + 1, vEnd, count)
             ELSE IF uNeighbor = vNeighbor
                  THEN TwoPointerSwapped(colIdx, u, v, ii + 1, uEnd, jj + 1, vEnd, count + 1)
             ELSE IF uNeighbor < vNeighbor
                  THEN TwoPointerSwapped(colIdx, u, v, ii, uEnd, jj + 1, vEnd, count)
             ELSE TwoPointerSwapped(colIdx, u, v, ii + 1, uEnd, jj, vEnd, count)

\* the while loop of the kernel: two pointers i, j over the lists of u and v
RECURSIVE TwoPointer(_, _, _, _, _, _, _, _)
TwoPointer(colIdx, u, v, ii, uEnd, jj, vEnd, count) ==
    IF ~(ii < uEnd /\ jj < vEnd) THEN count
    ELSE LET uNeighbor == colIdx[ii]
             vNeighbor == colIdx[jj]
         IN  IF uNeighbor = v THEN TwoPointer(colIdx, u, v, ii + 1, uEnd, jj, vEnd, count)
             ELSE IF vNeighbor = u THEN TwoPointer(colIdx, u, v, ii, uEnd, jj + 1, vEnd, count)
             ELSE IF uNeighbor = vNeighbor
                  THEN TwoPointer(colIdx, u, v, ii + 1, uEnd, jj + 1, vEnd, count + 1)
             ELSE IF uNeighbor < vNeighbor
                  THEN TwoPointer(colIdx, u, v, ii + 1, uEnd, jj, vEnd, count)
             ELSE TwoPointer(colIdx, u, v, ii, uEnd, jj + 1, vEnd, count)

\* the count the thread of edge edgeIdx computes
TriangleCount(rowPtr, colIdx, edgeSrc, edgeDst, edgeIdx) ==
    LET u == edgeSrc[edgeIdx]
        v == edgeDst[edgeIdx]
    IN  TwoPointer(colIdx, u, v, rowPtr[u], rowPtr[u + 1], rowPtr[v], rowPtr[v + 1], 0)

\* WriteSlot with every thread writing the first slot
WriteSlotShared(edgeIdx) == 0

\* the slot of support the thread of edge edgeIdx writes
WriteSlot(edgeIdx) == edgeIdx

\* int blocks = (g.numEdges + threads - 1) / threads;
blocks(numEdges) == (numEdges + threads - 1) \div threads

Min(a, b) == IF a < b THEN a ELSE b

\* the threads of the launch; of those that return at once only MaxIdle are kept
ThreadIds(numEdges) ==
    0..(Min(blocks(numEdges) * threads, numEdges + MaxIdle) - 1)

----------------------------------------------------------------------------
(* the pruning loop and the report *)

\* PruneCond with the comparison against the threshold turned around
PruneCondInverted(s, kk) == s >= 0 /\ s > kk - 2

\* PruneCond off by one at the threshold
PruneCondOffByOne(s, kk) == s >= 0 /\ s <= kk - 2

\* if (support[i] >= 0 && support[i] < k - 2)
PruneCond(s, kk) == s >= 0 /\ s < kk - 2

\* LoopCond with the bound one too small
LoopCondShort(it, numEdges) == it < numEdges - 1

\* for (...; iter < g.numEdges; ...)
LoopCond(it, numEdges) == it < numEdges

\* if (support[i] >= k - 2)
Remains(s, kk) == s >= kk - 2

\* one pass of the inner loop over a whole support vector
PassOver(sup, kk) == [e \in DOMAIN sup |-> IF PruneCond(sup[e], kk) THEN -1 ELSE sup[e]]

RECURSIVE PruneLoop(_, _, _, _)
PruneLoop(sup, kk, it, numEdges) ==
    IF ~LoopCond(it, numEdges) THEN sup
    ELSE LET next == PassOver(sup, kk)
         IN  IF next = sup THEN sup ELSE PruneLoop(next, kk, it + 1, numEdges)

\* the indices kTruss(gg, kk) prints, as a function of its arguments
KTrussIndices(gg, kk) ==
    LET src == [e \in 0..(gg.numEdges - 1) |-> gg.edges[e + 1][1]]
        dst == [e \in 0..(gg.numEdges - 1) |-> gg.edges[e + 1][2]]
        sup == [e \in 0..(gg.numEdges - 1) |->
                    TriangleCount(gg.rowPtr, gg.colIdx, src, dst, e)]
        fin == PruneLoop(sup, kk, 0, gg.numEdges)
    IN  {e \in 0..(gg.numEdges - 1) : Remains(fin[e], kk)}

\* the node pairs kTruss(gg, kk) prints
KTrussPairs(gg, kk) == {gg.edges[e + 1] : e \in KTrussIndices(gg, kk)}

----------------------------------------------------------------------------
(* kTruss *)

Init ==
    /\ g \in Inputs
    /\ k \in 1..MaxK
    /\ pc = "start"
    /\ d_rowPtr = <<>>
    /\ d_colIdx = <<>>
    /\ d_edgeSrc = <<>>
    /\ d_edgeDst = <<>>
    /\ d_support = <<>>
    /\ ran = {}
    /\ support = <<>>
    /\ iter = 0
    /\ i = 0
    /\ changed = FALSE
    /\ passes = 0
    /\ printed = <<>>

\* lines 47-76: edge arrays, device copies, kernel launch
Launch ==
    /\ pc = "start"
    /\ d_edgeSrc' = [e \in 0..(g.numEdges - 1) |-> g.edges[e + 1][1]]
    /\ d_edgeDst' = [e \in 0..(g.numEdges - 1) |-> g.edges[e + 1][2]]
    /\ d_rowPtr' = [n \in 0..g.numNodes |-> g.rowPtr[n]]
    /\ d_colIdx' = [p \in 0..(g.rowPtr[g.numNodes] - 1) |-> g.colIdx[p]]
    /\ pc' = "kernel"
    /\ UNCHANGED <<g, k, d_support, ran, support, iter, i, changed, passes, printed>>

\* one thread of countTriangles, from its first line to its return
RunThread(t) ==
    /\ pc = "kernel"
    /\ t \in ThreadIds(g.numEdges) \ ran
    /\ ran' = ran \cup {t}
    /\ IF t >= g.numEdges
       THEN d_support' = d_support
       ELSE LET count == TriangleCount(d_rowPtr, d_colIdx, d_edgeSrc, d_edgeDst, t)
                slot  == WriteSlot(t)
            IN  d_support' = [e \in DOMAIN d_support \cup {slot} |->
                                 IF e = slot THEN count ELSE d_support[e]]
    /\ UNCHANGED <<g, k, pc, d_rowPtr, d_colIdx, d_edgeSrc, d_edgeDst,
                   support, iter, i, changed, passes, printed>>

\* lines 77-95: cudaDeviceSynchronize, then the supports are copied to the host
CopyBack ==
    /\ pc = "kernel"
    /\ ran = ThreadIds(g.numEdges)
    /\ \E junk \in [(0..(g.numEdges - 1)) \ DOMAIN d_support -> GarbageVals] :
          support' = [e \in 0..(g.numEdges - 1) |->
                         IF e \in DOMAIN d_support THEN d_support[e] ELSE junk[e]]
    /\ iter' = 0
    /\ pc' = "outer"
    /\ UNCHANGED <<g, k, d_rowPtr, d_colIdx, d_edgeSrc, d_edgeDst, d_support, ran,
                   i, changed, passes, printed>>

\* line 98-99: the test of the outer loop and the start of a pass
PassBegin ==
    /\ pc = "outer"
    /\ IF LoopCond(iter, g.numEdges)
       THEN /\ changed' = FALSE
            /\ i' = 0
            /\ pc' = "inner"
       ELSE /\ pc' = "report"
            /\ UNCHANGED <<changed, i>>
    /\ UNCHANGED <<g, k, d_rowPtr, d_colIdx, d_edgeSrc, d_edgeDst, d_support, ran,
                   support, iter, passes, printed>>

\* lines 100-105: the body of the inner loop for edge i
PruneStep ==
    /\ pc = "inner"
    /\ i < g.numEdges
    /\ IF PruneCond(support[i], k)
       THEN /\ support' = [support EXCEPT ![i] = -1]
            /\ changed' = TRUE
       ELSE UNCHANGED <<support, changed>>
    /\ i' = i + 1
    /\ UNCHANGED <<g, k, pc, d_rowPtr, d_colIdx, d_edgeSrc, d_edgeDst, d_support, ran,
                   iter, passes, printed>>

\* lines 105-107: end of a pass; break when nothing changed
PassEnd ==
    /\ pc = "inner"
    /\ i = g.numEdges
    /\ passes' = passes + 1
    /\ IF ~changed
       THEN /\ pc' = "report"
            /\ iter' = iter
       ELSE /\ pc' = "outer"
            /\ iter' = iter + 1
    /\ UNCHANGED <<g, k, d_rowPtr, d_colIdx, d_edgeSrc, d_edgeDst, d_support, ran,
                   support, i, changed, printed>>

RECURSIVE PrintFrom(_, _, _, _)
PrintFrom(e, sup, kk, gg) ==
    IF e >= gg.numEdges THEN <<>>
    ELSE (IF Remains(sup[e], kk)
          THEN <<[idx |-> e, src |-> gg.edges[e + 1][1], dst |-> gg.edges[e + 1][2],
                  support |-> sup[e]]>>
          ELSE <<>>) \o PrintFrom(e + 1, sup, kk, gg)

\* lines 109-117: the remaining edges are printed, device memory is freed
Report ==
    /\ pc = "report"
    /\ printed' = PrintFrom(0, support, k, g)
    /\ pc' = "done"
    /\ UNCHANGED <<g, k, d_rowPtr, d_colIdx, d_edgeSrc, d_edgeDst, d_support, ran,
                   support, iter, i, changed, passes>>

Next ==
    \/ Launch
    \/ \E t \in ThreadIds(g.numEdges) : RunThread(t)
    \/ CopyBack
    \/ PassBegin
    \/ PruneStep
    \/ PassEnd
    \/ Report

Spec == Init /\ [][Next]_vars

\* every launched thread runs, and the host code runs to its end
FairSpec == Spec /\ WF_vars(Next)

----------------------------------------------------------------------------
TypeOK ==
    /\ pc \in {"start", "kernel", "outer", "inner", "report", "done"}
    /\ k \in 1..MaxK
    /\ DOMAIN d_support \subseteq 0..(g.numEdges - 1)
    /\ iter \in 0..g.numEdges
    /\ i \in 0..g.numEdges

----------------------------------------------------------------------------
(* Vocabulary of the properties *)

\* the edge list as a set of unordered pairs
EdgeSets(gg) == {{gg.edges[e][1], gg.edges[e][2]} : e \in 1..gg.numEdges}

\* the edge list as a set of ordered pairs
EdgePairs(gg) == {gg.edges[e] : e \in 1..gg.numEdges}

\* number of triangles {u,v,w} around the edge uv whose other two edges are in S
SupportIn(uv, S, numNodes) ==
    Cardinality({w \in 0..(numNodes - 1) : w \notin uv /\ \A x \in uv : {x, w} \in S})

\* the k-truss of S: the largest subset in which every edge has SupportIn >= k - 2
RECURSIVE Truss(_, _, _)
Truss(S, kk, numNodes) ==
    LET low == {uv \in S : SupportIn(uv, S, numNodes) < kk - 2}
    IN  IF low = {} THEN S ELSE Truss(S \ low, kk, numNodes)

\* each node's list in the index is exactly its ascending neighbours in the edge list
Consistent(gg) ==
    \A n \in 0..(gg.numNodes - 1) :
        /\ gg.rowPtr[n] <= gg.rowPtr[n + 1]
        /\ [p \in 1..(gg.rowPtr[n + 1] - gg.rowPtr[n]) |-> gg.colIdx[gg.rowPtr[n] + p - 1]]
               = SortedInts(Neighbours(EdgePairs(gg), n))

PrintedEdges == {{printed[p].src, printed[p].dst} : p \in 1..Len(printed)}

PrintedPairs == {<<printed[p].src, printed[p].dst>> : p \in 1..Len(printed)}

PrintedIdx == {printed[p].idx : p \in 1..Len(printed)}

EdgeAt(e) == {g.edges[e + 1][1], g.edges[e + 1][2]}

\* the pruning loop has been left
LoopLeft == pc \in {"report", "done"}

\* the edges whose stored support still passes the final test
AliveEdges == {EdgeAt(e) : e \in {x \in DOMAIN support : Remains(support[x], k)}}

\* the state machine and the function KTrussIndices agree at the end of every call
ResultIsFunction == pc = "done" => PrintedIdx = KTrussIndices(g, k)

----------------------------------------------------------------------------
(* C1: for a simple graph with a consistent index and k >= 2, the edges kTruss
   reports are exactly the k-truss of the input. *)
C1_ExactTruss ==
    (pc = "done" /\ k >= 2 /\ Consistent(g))
        => PrintedEdges = Truss(EdgeSets(g), k, g.numNodes)

(* C2: once the pruning loop has been left, every surviving edge lies in at
   least k-2 triangles made of surviving edges. *)
C2_SupportAmongAlive ==
    LoopLeft =>
        \A e \in DOMAIN support :
            Remains(support[e], k) => SupportIn(EdgeAt(e), AliveEdges, g.numNodes) >= k - 2

(* C3: running kTruss with the same k on the survivors, index rebuilt from them,
   reports the same edge set again. *)
C3_Idempotent ==
    (pc = "done" /\ k >= 2)
        => KTrussPairs(BuildGraph(g.numNodes, PrintedPairs), k) = PrintedPairs

(* C4: the reported set shrinks as k grows: it is contained in the set reported
   for every smaller k and contains the set reported for every larger k. *)
C4_Monotone ==
    pc = "done" =>
        \A k1 \in 1..MaxK :
            /\ k1 < k => PrintedPairs \subseteq KTrussPairs(g, k1)
            /\ k < k1 => KTrussPairs(g, k1) \subseteq PrintedPairs

C4_Witness ==
    /\ pc = "done"
    /\ k > 1
    /\ printed # <<>>
    /\ PrintedPairs # KTrussPairs(g, k - 1)

(* C5: a call with k < 2 is rejected before anything happens: no support slot
   is written and nothing is reported. *)
C5_InvalidKRejected ==
    k < 2 => (DOMAIN d_support = {} /\ support = <<>> /\ printed = <<>>)

(* C6: the support countTriangles writes for an edge is the number of nodes
   adjacent to both endpoints in the edge list; for the graph of main the
   supports are 1, 1, 2, 1, 1. *)
C6_InitialSupport ==
    pc \notin {"start", "kernel"} =>
        /\ \A e \in 0..(g.numEdges - 1) :
               d_support[e] = SupportIn(EdgeAt(e), EdgeSets(g), g.numNodes)
        /\ g = MainGraph => d_support = ZeroBased(<<1, 1, 2, 1, 1>>)

(* C7 as stated: the pruning loop is left only after a pass that removed no
   edge, with no alive edge below k-2. *)
C7_StopsAfterQuietPass ==
    LoopLeft =>
        /\ ~changed
        /\ \A e \in DOMAIN support : ~PruneCond(support[e], k)

\* an upper bound on the steps the pruning loop still takes: a pass is its
\* start, one step per edge and its end
LoopRank ==
    IF pc = "outer" THEN (g.numEdges - iter) * (g.numEdges + 2) + 1
    ELSE IF pc = "inner"
         THEN (g.numEdges - iter - 1) * (g.numEdges + 2) + (g.numEdges - i) + 2
    ELSE 0

(* C7 as amended: the pruning loop terminates (inside the loop a step is always
   possible and every step lowers LoopRank, which stays positive), and when it
   is left no alive edge has stored support below k-2; the last pass removed
   no edge, except that with no edge no pass runs and with one edge the loop
   can be left through its bound right after the pass that removed the edge. *)
C7_Terminates ==
    /\ [][(pc \in {"outer", "inner"}) => (LoopRank' < LoopRank)]_vars
    /\ [](pc \in {"outer", "inner"} =>
            /\ LoopRank > 0
            /\ ENABLED (PassBegin \/ PruneStep \/ PassEnd))
    /\ [](LoopLeft =>
            /\ \A e \in DOMAIN support : ~(support[e] >= 0 /\ support[e] < k - 2)
            /\ changed => g.numEdges = 1
            /\ passes = 0 => g.numEdges = 0)

\* under fair scheduling every call of kTruss reaches its end
Termination == <>(pc = "done")

C7_Witness == pc = "report" /\ g.numEdges = 1 /\ changed /\ passes = 1

(* C8: every edge is alive when pruning starts, is marked removed only while
   alive and below k-2, is never modified once removed, and is not reported. *)
C8_RemovedIsTerminal ==
    [][/\ (pc = "kernel" /\ pc' = "outer") => \A e \in DOMAIN support' : support'[e] >= 0
       /\ pc \in {"outer", "inner", "report"} =>
            \A e \in DOMAIN support :
                /\ support[e] = -1 => support'[e] = -1
                /\ support'[e] # support[e] =>
                       (support[e] >= 0 /\ support[e] < k - 2 /\ support'[e] = -1)
       /\ pc' = "done" => \A e \in DOMAIN support' : support'[e] = -1 => e \notin PrintedIdx'
      ]_vars

C8_Witness == pc = "done" /\ printed # <<>> /\ \E e \in DOMAIN support : support[e] = -1

\* the supports computed one edge after the other
RECURSIVE SequentialSupport(_, _, _)
SequentialSupport(gg, e, sup) ==
    IF e >= gg.numEdges THEN sup
    ELSE LET src == [x \in 0..(gg.numEdges - 1) |-> gg.edges[x + 1][1]]
             dst == [x \in 0..(gg.numEdges - 1) |-> gg.edges[x + 1][2]]
             count == TriangleCount(gg.rowPtr, gg.colIdx, src, dst, e)
             slot == WriteSlot(e)
         IN  SequentialSupport(gg, e + 1,
                 [x \in DOMAIN sup \cup {slot} |-> IF x = slot THEN count ELSE sup[x]])

(* C9: a kernel thread changes nothing but its own slot of the support array,
   a thread beyond the last edge changes nothing, and when all threads are done
   the supports are those of a sequential evaluation. *)
C9_ThreadsIndependent ==
    /\ [][(pc = "kernel" /\ ran' # ran) =>
            \A t \in ran' \ ran :
                /\ <<d_rowPtr', d_colIdx', d_edgeSrc', d_edgeDst'>>
                       = <<d_rowPtr, d_colIdx, d_edgeSrc, d_edgeDst>>
                /\ t >= g.numEdges => d_support' = d_support
                /\ t < g.numEdges =>
                       /\ DOMAIN d_support' = DOMAIN d_support \cup {t}
                       /\ \A e \in DOMAIN d_support : e # t => d_support'[e] = d_support[e]
         ]_vars
    /\ [](pc \notin {"start", "kernel"} =>
            /\ d_support = SequentialSupport(g, 0, <<>>)
            /\ support \in [0..(g.numEdges - 1) -> Int])

C9_Witness ==
    /\ pc = "outer"
    /\ g.numEdges >= 2
    /\ \E t \in ran : t >= g.numEdges
    /\ support = d_support

(* C10: with a consistent index and k >= 2, the reported set contains the
   k-truss and is the set of edges whose support in the whole input graph is
   at least k-2. *)
C10_SupersetOfTruss ==
    (pc = "done" /\ k >= 2 /\ Consistent(g)) =>
        /\ Truss(EdgeSets(g), k, g.numNodes) \subseteq PrintedEdges
        /\ PrintedEdges =
               {uv \in EdgeSets(g) : SupportIn(uv, EdgeSets(g), g.numNodes) >= k - 2}

C10_Witness ==
    /\ pc = "done"
    /\ k >= 2
    /\ Consistent(g)
    /\ PrintedEdges # Truss(EdgeSets(g), k, g.numNodes)
    /\ Truss(EdgeSets(g), k, g.numNodes) \subseteq PrintedEdges

====
